---------------------------- MODULE Spec2Model ----------------------------
(***************************************************************************)
(* Model of promcurl.py: an interactive Prometheus client.  The script     *)
(* fetches the metric names, arms readline completion over them, reads     *)
(* one query line, runs the query and prints the result as a table.        *)
(*                                                                         *)
(* Python strings whose content the program inspects (metric names,        *)
(* completion prefixes, label keys, label values, sample values, column    *)
(* labels) are sequences of Unicode code points, so that str.startswith    *)
(* and the ordering used by sorted() are computed as Python computes       *)
(* them.  JSON object keys that the program only looks up ("data",         *)
(* "result", "metric", "value") are record fields; a dict that lacks a key *)
(* is a record (or function) whose DOMAIN lacks it.                        *)
(*                                                                         *)
(* requests.get and response.json() are modelled by the outcomes they can   *)
(* have.  tabulate(table, headers, tablefmt="grid") is modelled by the     *)
(* text of each cell it draws: with the defaults the script leaves in      *)
(* place it parses numbers, so a column whose cells all read as numbers,   *)
(* one of them with a decimal point, is redrawn with format(float(v), "g"). *)
(* The borders and the padding of the grid are not modelled.               *)
(***************************************************************************)
EXTENDS Integers, Sequences, FiniteSets, TLC

VARIABLES
    pc,               \* the driver's position: the statement to run next
    metrics,          \* module global `metrics` (line 42)
    completerSet,     \* readline.set_completer has been called (line 49)
    completion,       \* the last call of the completer lambda and its outcome
    query,            \* module global `query` (line 52)
    results,          \* module global `results` (line 55)
    stdout,           \* the tables printed: tabulate's arguments and its cells
    exitStatus,       \* the process's exit status once pc = "exit"
    error,            \* the uncaught exception that ended the run, if any
    requests,         \* log of the HTTP requests issued, in order
    metricsResponse,  \* what the metric-name endpoint answered
    queryResponse,    \* what the query endpoint answered
    steps             \* log of the driver statements run, with their success

vars == <<pc, metrics, completerSet, completion, query, results, stdout,
          exitStatus, error, requests, metricsResponse, queryResponse, steps>>

----------------------------------------------------------------------------
(* Bounds of the model.                                                    *)

\* longest metric-name list the completer is checked on
MaxMetrics == 3
\* largest completion index (`state`) requested
MaxState == 3
\* largest result set display_table is checked on
MaxRecords == 2
\* longest metric-name list a whole run is checked on
MaxRunMetrics == 2
\* largest result set a whole run is checked on
MaxRunRecords == 2

----------------------------------------------------------------------------
(* Strings, as code points.                                                *)

\* "", also the default of .get(label, '') (line 33)
s_empty == <<>>
\* "up"
s_up == <<117, 112>>
\* "up_time"
s_up_time == <<117, 112, 95, 116, 105, 109, 101>>
\* "node_cpu_seconds_total"
s_node_cpu == <<110, 111, 100, 101, 95, 99, 112, 117, 95, 115, 101, 99, 111,
                110, 100, 115, 95, 116, 111, 116, 97, 108>>
\* "u", "up_", "n", "p": completion prefixes ("p" occurs in "up" and in
\* "up_time" but starts no metric name)
s_u == <<117>>
s_up_ == <<117, 112, 95>>
s_n == <<110>>
s_p == <<112>>
\* "job", "jobs", "Zone": label keys after and before "__name__" in code point order
s_job == <<106, 111, 98>>
s_jobs == <<106, 111, 98, 115>>
s_Zone == <<90, 111, 110, 101>>
\* "1", "0.5", "0.123456789": sample values
s_1 == <<49>>
s_0_5 == <<48, 46, 53>>
s_0_123456789 == <<48, 46, 49, 50, 51, 52, 53, 54, 55, 56, 57>>
\* "a": a label value
s_a == <<97>>
\* "sum(up)": an aggregation query
s_sum_up == <<115, 117, 109, 40, 117, 112, 41>>

\* '__name__', the reserved label key (lines 10, 28, 36)
NameKey == <<95, 95, 110, 97, 109, 101, 95, 95>>
\* 'Metric', the first column's label (line 27); src/promcurl.py, the same
\* script with French messages, spells it and 'Value' differently
MetricHeader == <<77, 101, 116, 114, 105, 99>>
\* 'Value', the last column's label (line 29)
ValueHeader == <<86, 97, 108, 117, 101>>

----------------------------------------------------------------------------
(* Python built-ins used by the program.                                   *)

\* str.startswith(prefix)
startswith(s, prefix) ==
    /\ Len(prefix) <= Len(s)
    /\ \A i \in 1..Len(prefix) : s[i] = prefix[i]

\* str.__lt__: code point order, a proper prefix is smaller
RECURSIVE str_lt(_, _)
str_lt(a, b) ==
    IF b = <<>> THEN FALSE
    ELSE IF a = <<>> THEN TRUE
    ELSE IF Head(a) # Head(b) THEN Head(a) < Head(b)
    ELSE str_lt(Tail(a), Tail(b))

\* sorted(S) with the elements in descending order (a wrong comparison)
RECURSIVE sorted_descending(_)
sorted_descending(S) ==
    IF S = {} THEN <<>>
    ELSE LET m == CHOOSE x \in S : \A y \in S \ {x} : str_lt(y, x)
         IN  <<m>> \o sorted_descending(S \ {m})

\* sorted(S) for a set of strings: ascending list
RECURSIVE sorted(_)
sorted(S) ==
    IF S = {} THEN <<>>
    ELSE LET m == CHOOSE x \in S : \A y \in S \ {x} : str_lt(x, y)
         IN  <<m>> \o sorted(S \ {m})

\* x in list
list_contains(list, x) == \E i \in 1..Len(list) : list[i] = x

\* list.remove(x) for a list that contains x: drops the first occurrence
list_remove(list, x) ==
    LET k == CHOOSE i \in 1..Len(list) :
                 list[i] = x /\ \A j \in 1..(i - 1) : list[j] # x
    IN  SubSeq(list, 1, k - 1) \o SubSeq(list, k + 1, Len(list))

\* dict.get(key, default)
dict_get(d, key, default) == IF key \in DOMAIN d THEN d[key] ELSE default

\* An operation that returned `v`, and one that raised `exc` at `line`.
Returned(v) == [ok |-> TRUE, value |-> v]
Raised(exc, line) == [ok |-> FALSE, exc |-> exc, line |-> line]

----------------------------------------------------------------------------
(* Completion provider (line 49).                                          *)

\* [metric for metric in metrics if metric.startswith(text)]
RECURSIVE matches(_, _)
matches(ms, text) ==
    IF ms = <<>> THEN <<>>
    ELSE (IF startswith(Head(ms), text) THEN <<Head(ms)>> ELSE <<>>)
         \o matches(Tail(ms), text)

\* the lambda with the comprehension indexed by state + 1 (an off-by-one)
completer_skips_first(ms, text, state) ==
    IF state + 1 < Len(matches(ms, text))
    THEN Returned(matches(ms, text)[state + 2])
    ELSE Raised("IndexError", 49)

\* lambda text, state: [...][state], over the metric list ms, for state >= 0:
\* Python's list index state is element state + 1 of the sequence, and an
\* index past the end raises IndexError.
completer(ms, text, state) ==
    IF state < Len(matches(ms, text))
    THEN Returned(matches(ms, text)[state + 1])
    ELSE Raised("IndexError", 49)

----------------------------------------------------------------------------
(* Table renderer (lines 26-39).                                           *)

\* set().union(*[result['metric'].keys() for result in results])
metric_keys(rs) == UNION {DOMAIN rs[i].metric : i \in 1..Len(rs)}

\* lines 33-36 with the name read by .get('__name__', '') instead of ['__name__']
table_row_lenient(result, headers) ==
    LET labels == SubSeq(headers, 2, Len(headers) - 1)
        row == [k \in 1..Len(labels) |-> dict_get(result.metric, labels[k], s_empty)]
    IN  IF "value" \notin DOMAIN result THEN Raised("KeyError", 34)
        ELSE IF Len(result.value) < 2 THEN Raised("IndexError", 34)
        ELSE Returned(<<dict_get(result.metric, NameKey, s_empty)>> \o row
                      \o <<result.value[2]>>)

\* lines 33-36 with the label cells taken over headers[1:] instead of headers[1:-1]
table_row_wide(result, headers) ==
    LET labels == SubSeq(headers, 2, Len(headers))
        row == [k \in 1..Len(labels) |-> dict_get(result.metric, labels[k], s_empty)]
    IN  IF "value" \notin DOMAIN result THEN Raised("KeyError", 34)
        ELSE IF Len(result.value) < 2 THEN Raised("IndexError", 34)
        ELSE IF NameKey \notin DOMAIN result.metric THEN Raised("KeyError", 36)
        ELSE Returned(<<result.metric[NameKey]>> \o row \o <<result.value[2]>>)

\* Lines 33-36, the body of the loop for one record: the label cells over
\* headers[1:-1], then the sample value result['value'][1] appended, then
\* result['metric']['__name__'] inserted in front.
table_row(result, headers) ==
    LET labels == SubSeq(headers, 2, Len(headers) - 1)
        row == [k \in 1..Len(labels) |-> dict_get(result.metric, labels[k], s_empty)]
    IN  IF "value" \notin DOMAIN result THEN Raised("KeyError", 34)
        ELSE IF Len(result.value) < 2 THEN Raised("IndexError", 34)
        ELSE IF NameKey \notin DOMAIN result.metric THEN Raised("KeyError", 36)
        ELSE Returned(<<result.metric[NameKey]>> \o row \o <<result.value[2]>>)

\* Lines 30-37, the loop: one row per record in list order; the first record
\* whose row raises ends the loop with that exception.
RECURSIVE table_rows(_, _)
table_rows(rs, headers) ==
    IF rs = <<>> THEN Returned(<<>>)
    ELSE LET r == table_row(Head(rs), headers)
         IN  IF ~r.ok THEN r
             ELSE LET rest == table_rows(Tail(rs), headers)
                  IN  IF ~rest.ok THEN rest
                      ELSE Returned(<<r.value>> \o rest.value)

\* '0' * n
zeros(n) == [i \in 1..n |-> 48]

\* s.lstrip('0')
lstrip_zeros(s) ==
    IF \A i \in 1..Len(s) : s[i] = 48 THEN <<>>
    ELSE SubSeq(s, CHOOSE i \in 1..Len(s) :
                       s[i] # 48 /\ \A j \in 1..(i - 1) : s[j] = 48, Len(s))

\* s.rstrip('0')
rstrip_zeros(s) ==
    IF \A i \in 1..Len(s) : s[i] = 48 THEN <<>>
    ELSE SubSeq(s, 1, CHOOSE i \in 1..Len(s) :
                          s[i] # 48 /\ \A j \in (i + 1)..Len(s) : s[j] = 48)

\* int(s) for a short string of decimal digits
RECURSIVE digits_value(_)
digits_value(s) ==
    IF s = <<>> THEN 0
    ELSE 10 * digits_value(SubSeq(s, 1, Len(s) - 1)) + (s[Len(s)] - 48)

\* str(n) for n >= 0
RECURSIVE nat_str(_)
nat_str(n) ==
    IF n < 10 THEN <<48 + n>>
    ELSE nat_str(n \div 10) \o <<48 + (n % 10)>>

\* Whole numbers of any size, as strings of decimal digits: a < b
big_lt(a, b) ==
    LET x == lstrip_zeros(a)
        y == lstrip_zeros(b)
    IN  \/ Len(x) < Len(y)
        \/ /\ Len(x) = Len(y)
           /\ \E i \in 1..Len(x) : x[i] < y[i] /\ \A j \in 1..(i - 1) : x[j] = y[j]

\* 2 * a: the carry into a place is 1 exactly when the digit to its right
\* is 5 or more
big_double(a) ==
    LET n == Len(a)
        low == [i \in 1..n |->
                   48 + ((2 * (a[i] - 48)
                          + (IF i < n /\ a[i + 1] >= 53 THEN 1 ELSE 0)) % 10)]
    IN  IF n > 0 /\ a[1] >= 53 THEN <<49>> \o low ELSE low

\* 5 * a, as 10 * a halved, in Len(a) + 1 digits: halving a digit takes in 10
\* from an odd digit to its left
big_times5(a) ==
    LET b == a \o <<48>>
    IN  [i \in 1..Len(b) |->
            48 + (((b[i] - 48)
                   + (IF i > 1 /\ (b[i - 1] - 48) % 2 = 1 THEN 10 ELSE 0)) \div 2)]

\* a + 1
big_inc(a) ==
    IF \A i \in 1..Len(a) : a[i] = 57 THEN <<49>> \o zeros(Len(a))
    ELSE LET t == CHOOSE i \in 1..Len(a) :
                      a[i] # 57 /\ \A j \in (i + 1)..Len(a) : a[j] = 57
         IN  [i \in 1..Len(a) |->
                 IF i < t THEN a[i] ELSE IF i = t THEN a[i] + 1 ELSE 48]

\* a * 2 ** n
big_mul_pow2[a \in Seq(48..57), n \in Nat] ==
    IF n = 0 THEN a
    ELSE IF n = 1 THEN big_double(a)
    ELSE big_mul_pow2[big_mul_pow2[a, n \div 2], n - n \div 2]

\* a * 5 ** n, in Len(a) + n digits
big_mul_pow5[a \in Seq(48..57), n \in Nat] ==
    IF n = 0 THEN a
    ELSE IF n = 1 THEN big_times5(a)
    ELSE big_mul_pow5[big_mul_pow5[a, n \div 2], n - n \div 2]

\* 2 ** 52 and 2 ** 53: a double's mantissa q has 2 ** 52 <= q < 2 ** 53
TwoTo52 == <<52, 53, 48, 51, 53, 57, 57, 54, 50, 55, 51, 55, 48, 52, 57, 54>>
TwoTo53 == <<57, 48, 48, 55, 49, 57, 57, 50, 53, 52, 55, 52, 48, 57, 57, 50>>

\* Round half to even: the digits `rest` dropped behind a kept digit weigh
\* more than a half, or exactly a half while the kept digit is odd.
rounds_up(rest, keptOdd) ==
    /\ rest # <<>>
    /\ \/ rest[1] > 53
       \/ /\ rest[1] = 53
          /\ (keptOdd \/ \E i \in 2..Len(rest) : rest[i] # 48)

\* the digits B read with p of them behind the point: the whole part
int_part(B, p) == SubSeq(B, 1, Len(B) - p)
\* and the part behind the point
frac_part(B, p) == SubSeq(B, Len(B) - p + 1, Len(B))

\* B / 10 ** p is the value times 2 ** k with a whole part below 2 ** 53.
\* Double it as often as keeps the whole part below 2 ** 53 and k within
\* 1074, the exponent of the smallest double: the whole part then has 53
\* bits, or k is 1074. The doublings are tried `step` at a time, `step`
\* halving from 1024.
RECURSIVE scale_up(_, _, _, _)
scale_up(B, p, k, step) ==
    IF step = 0 THEN [B |-> B, p |-> p, k |-> k]
    ELSE IF /\ k + step <= 1074
            /\ big_lt(int_part(big_mul_pow2[B, step], p), TwoTo53)
    THEN scale_up(big_mul_pow2[B, step], p, k + step, step \div 2)
    ELSE scale_up(B, p, k, step \div 2)

\* The whole part of B / 10 ** p is 2 ** 53 or more. Halve it (times 5, the
\* point one place to the left) as often as leaves the whole part at 2 ** 53
\* or more, and once more: the whole part then has 53 bits.
RECURSIVE scale_down(_, _, _, _)
scale_down(B, p, k, step) ==
    IF step = 0 THEN [B |-> big_times5(B), p |-> p + 1, k |-> k - 1]
    ELSE IF ~big_lt(int_part(big_mul_pow5[B, step], p + step), TwoTo53)
    THEN scale_down(big_mul_pow5[B, step], p + step, k - step, step \div 2)
    ELSE scale_down(B, p, k, step \div 2)

\* float(s) for s of digits with at most one full stop: the double nearest
\* to the decimal value, ties to the even mantissa, as q / 2 ** k; inf when
\* the value rounds past the largest double, 1.8e308, as every value with
\* more than 309 digits before the point does
python_float(s) ==
    LET dot == IF \A i \in 1..Len(s) : s[i] # 46 THEN Len(s) + 1
               ELSE CHOOSE i \in 1..Len(s) : s[i] = 46
        all == SubSeq(s, 1, dot - 1) \o SubSeq(s, dot + 1, Len(s))
        f == IF dot > Len(s) THEN 0 ELSE Len(s) - dot
        sc == IF big_lt(int_part(all, f), TwoTo53)
              THEN scale_up(all, f, 0, 1024)
              ELSE scale_down(all, f, 0, 1024)
        q0 == int_part(sc.B, sc.p)
        odd == q0 # <<>> /\ (q0[Len(q0)] - 48) % 2 = 1
        q == lstrip_zeros(IF rounds_up(frac_part(sc.B, sc.p), odd)
                          THEN big_inc(q0) ELSE q0)
    IN  IF Len(lstrip_zeros(int_part(all, f))) > 309
        THEN [inf |-> TRUE, q |-> <<>>, k |-> 0]
        ELSE [inf |-> sc.k < -971 \/ (sc.k = -971 /\ q = TwoTo53),
              q |-> q, k |-> sc.k]

\* the characters of s are decimal digits and full stops only
only_digits_and_dots(s) == \A i \in 1..Len(s) : s[i] \in (48..57) \cup {46}
\* the number of full stops in s
dots(s) == Cardinality({i \in 1..Len(s) : s[i] = 46})

\* tabulate's type of a cell that is a str, over strings without sign,
\* exponent, underscore or blank: "True" and "False" are bool, a string of
\* digits converts with int(), digits with one full stop convert with
\* float(), anything else (the empty string too) is str
cell_type(s) ==
    IF s \in {<<84, 114, 117, 101>>, <<70, 97, 108, 115, 101>>} THEN "bool"
    ELSE IF s # <<>> /\ only_digits_and_dots(s) /\ dots(s) = 0 THEN "int"
    ELSE IF only_digits_and_dots(s) /\ dots(s) = 1 /\ Len(s) > 1 THEN "float"
    ELSE "str"

\* tabulate's order of types, from the least to the most generic
type_rank(t) ==
    CASE t = "bool" -> 1 [] t = "int" -> 2 [] t = "float" -> 3 [] t = "str" -> 5

\* tabulate's type of a column: the most generic type of its cells,
\* starting from bool
column_type(col) ==
    LET types == {cell_type(col[k]) : k \in 1..Len(col)} \cup {"bool"}
    IN  CHOOSE t \in types : \A u \in types : type_rank(u) <= type_rank(t)

\* format(x, "g") for the double x = q / 2 ** k: the exact decimal expansion
\* of x rounded half to even at six significant digits, trailing zeros
\* dropped, in fixed notation for a decimal exponent from -4 to 5 and in
\* scientific notation otherwise
format_double_g(x) ==
    LET sig == IF x.k >= 0 THEN lstrip_zeros(big_mul_pow5[x.q, x.k])
               ELSE lstrip_zeros(big_mul_pow2[x.q, 0 - x.k])
        fd == IF x.k >= 0 THEN x.k ELSE 0
        d == Len(sig)
        head == SubSeq(sig, 1, 6)
        up == d > 6 /\ rounds_up(SubSeq(sig, 7, d), (head[6] - 48) % 2 = 1)
        carried == up /\ digits_value(head) + 1 = 1000000
        rounded == IF d <= 6 THEN sig
                   ELSE IF ~up THEN head
                   ELSE IF carried THEN <<49>>
                   ELSE nat_str(digits_value(head) + 1)
        m == rstrip_zeros(rounded)
        e == (d - 1 - fd) + (IF carried THEN 1 ELSE 0)
        a == IF e < 0 THEN 0 - e ELSE e
    IN  IF x.inf THEN <<105, 110, 102>>
        ELSE IF x.q = <<>> THEN <<48>>
        ELSE IF e >= 0 /\ e < 6
        THEN SubSeq(m \o zeros(e + 1), 1, e + 1)
             \o (IF Len(m) > e + 1 THEN <<46>> \o SubSeq(m, e + 2, Len(m)) ELSE <<>>)
        ELSE IF e < 0 /\ e >= -4
        THEN <<48, 46>> \o zeros(a - 1) \o m
        ELSE <<m[1]>>
             \o (IF Len(m) > 1 THEN <<46>> \o Tail(m) ELSE <<>>)
             \o <<101, IF e >= 0 THEN 43 ELSE 45>>
             \o (IF a < 10 THEN <<48>> ELSE <<>>) \o nat_str(a)

\* format(float(s), "g"), tabulate's text for a cell of a float column
format_g(s) == format_double_g(python_float(s))

\* the sample values of the inputs below, and format_g of each, worked out
\* once for every table that shows them
SampleValues == {s_1, s_0_5, s_0_123456789}
format_g_of_samples == [s \in SampleValues |-> format_g(s)]

\* tabulate's text for a str cell in a column of type t: a float column is
\* redrawn with floatfmt "g", every other column shows the cell as it is
format_cell(val, t) ==
    IF t # "float" THEN val
    ELSE IF val \in SampleValues THEN format_g_of_samples[val]
    ELSE format_g(val)

\* The text tabulate (line 39, default number parsing and floatfmt) draws in
\* each cell of the rows of `table`, all of one length.
tabulate_cells(table) ==
    IF table = <<>> THEN <<>>
    ELSE LET column(c) == [k \in 1..Len(table) |-> table[k][c]]
         IN  [k \in 1..Len(table) |->
                [c \in 1..Len(table[1]) |->
                    format_cell(table[k][c], column_type(column(c)))]]

\* display_table(results): the arguments handed to tabulate and the cells it
\* draws, printed together with the headers (line 39), or the exception
\* raised before anything is printed.
display_table(rs) ==
    IF \E i \in 1..Len(rs) : "metric" \notin DOMAIN rs[i]
    THEN Raised("KeyError", 27)
    ELSE LET line27 == <<MetricHeader>> \o sorted(metric_keys(rs))
         IN  IF ~list_contains(line27, NameKey)
             THEN Raised("ValueError", 28)
             ELSE LET headers == Append(list_remove(line27, NameKey), ValueHeader)
                      table == table_rows(rs, headers)
                  IN  IF ~table.ok THEN table
                      ELSE Returned([table |-> table.value, headers |-> headers,
                                     cells |-> tabulate_cells(table.value)])

----------------------------------------------------------------------------
(* API client (lines 9-23).  A response is what requests.get and           *)
(* response.json() make of the server's answer: no connection, a body that *)
(* is not JSON, or a decoded JSON object; the HTTP status is never read.   *)

\* GET {prometheus_url}/label/__name__/values (lines 10-11)
MetricsRequest == [endpoint |-> "/label/__name__/values"]
\* GET {prometheus_url}/query with params {'query': query} (lines 17-21)
QueryRequest(q) == [endpoint |-> "/query", params |-> [query |-> q]]

\* get_metrics answering an empty list where the body lacks 'data'
get_metrics_defaulting(response) ==
    IF ~response.connected THEN Raised("ConnectionError", 11)
    ELSE IF ~response.json THEN Raised("JSONDecodeError", 12)
    ELSE IF "data" \notin DOMAIN response.body THEN Returned(<<>>)
    ELSE Returned(response.body.data)

\* get_metrics(), given the endpoint's response
get_metrics(response) ==
    IF ~response.connected THEN Raised("ConnectionError", 11)
    ELSE IF ~response.json THEN Raised("JSONDecodeError", 12)
    ELSE IF "data" \notin DOMAIN response.body THEN Raised("KeyError", 13)
    ELSE Returned(response.body.data)

\* query_prometheus(query), given the endpoint's response
query_prometheus(response) ==
    IF ~response.connected THEN Raised("ConnectionError", 21)
    ELSE IF ~response.json THEN Raised("JSONDecodeError", 22)
    ELSE IF "data" \notin DOMAIN response.body THEN Raised("KeyError", 23)
    ELSE IF "result" \notin DOMAIN response.body.data THEN Raised("KeyError", 23)
    ELSE Returned(response.body.data.result)

----------------------------------------------------------------------------
(* The inputs the program is checked on.                                   *)

\* the lists over S of length at most n
Lists(S, n) == UNION {[1..k -> S] : k \in 0..n}

\* metric names the server may list
MetricNames == {s_up, s_up_time, s_node_cpu}
\* texts typed before the tab key: "", "u", "up", "up_", "n", "p"
Texts == {s_empty, s_u, s_up, s_up_, s_n, s_p}
\* lines typed at the prompt: "up", "sum(up)"
Queries == {s_up, s_sum_up}

\* label maps: '__name__' absent, "up" or "up_time"; each of "job", "jobs",
\* "Zone" absent or "a"
MetricMaps ==
    {name @@ labels :
        name \in {<<>>} \cup {[k \in {NameKey} |-> n] : n \in {s_up, s_up_time}},
        labels \in UNION {[D -> {s_a}] : D \in SUBSET {s_job, s_jobs, s_Zone}}}
\* value pairs [timestamp, sample value]
ValuePairs == {<<1700000000, v>> : v \in SampleValues}
\* up{job="a"}
UpJob == [k \in {NameKey, s_job} |-> IF k = NameKey THEN s_up ELSE s_a]
\* up_time{}
UpTime == [k \in {NameKey} |-> s_up_time]
\* records that lack 'metric' or 'value', or whose value pair is short
Malformed ==
    {[value |-> <<1700000000, s_1>>], [metric |-> UpJob],
     [metric |-> UpJob, value |-> <<1700000000>>]}
\* the records display_table is checked on
Records == {[metric |-> m, value |-> v] : m \in MetricMaps, v \in ValuePairs}
           \cup Malformed
\* the records a whole run is checked on
RunRecords ==
    {[metric |-> UpJob, value |-> <<1700000000, s_1>>],
     [metric |-> UpTime, value |-> <<1700000000, s_0_5>>],
     [value |-> <<1700000000, s_1>>],
     [metric |-> UpJob]}

\* HTTP statuses the server may answer with
Statuses == {200, 500}
\* the responses whose decoded JSON body is one of Bodies, and the failures
Responses(Bodies) ==
    {[connected |-> FALSE]}
    \cup {[connected |-> TRUE, status |-> st, json |-> FALSE] : st \in Statuses}
    \cup {[connected |-> TRUE, status |-> st, json |-> TRUE, body |-> b] :
             st \in Statuses, b \in Bodies}
\* bodies of the metric-name endpoint: an error object, or {"data": [...]}
MetricsBodies(n) ==
    {[status |-> "error"]}
    \cup {[status |-> "success", data |-> ms] : ms \in Lists(MetricNames, n)}
\* bodies of the query endpoint: an error object, 'data' without 'result',
\* or {"data": {"result": [...]}}
QueryBodies(R, n) ==
    {[status |-> "error"], [status |-> "success", data |-> [resultType |-> "vector"]]}
    \cup {[status |-> "success", data |-> [resultType |-> "vector", result |-> rs]] :
             rs \in Lists(R, n)}
\* what input() does: returns the line typed, or raises at end of input
InputOutcomes == {Returned(q) : q \in Queries} \cup {Raised("EOFError", 52)}

----------------------------------------------------------------------------
(* Driver (lines 41-58).                                                   *)

\* the statement after a failed one still runs (the exception is swallowed)
next_pc_swallowing(outcome, following) == following

\* An exception nobody catches ends the script: the statement after
\* `following` runs only if this one returned.
next_pc(outcome, following) == IF outcome.ok THEN following ELSE "exit"

\* The statement `step` ran with `outcome`: the log, the uncaught exception
\* if it raised one, where the script goes next, and the exit status once it
\* has ended (1 after an uncaught exception, 0 after the last statement).
Ran(step, outcome, following) ==
    /\ steps' = Append(steps, [step |-> step, ok |-> outcome.ok])
    /\ error' = IF outcome.ok THEN error ELSE Append(error, outcome)
    /\ pc' = next_pc(outcome, following)
    /\ exitStatus' = IF pc' # "exit" THEN exitStatus
                     ELSE IF outcome.ok THEN 0 ELSE 1

\* The script starts: nothing fetched, nothing printed, no exit status yet
\* (-1 stands for "still running").
Init ==
    /\ pc = "get_metrics"
    /\ metrics = <<>>
    /\ completerSet = FALSE
    /\ completion = <<>>
    /\ query = <<>>
    /\ results = <<>>
    /\ stdout = <<>>
    /\ exitStatus = -1
    /\ error = <<>>
    /\ requests = <<>>
    /\ metricsResponse = <<>>
    /\ queryResponse = <<>>
    /\ steps = <<>>

\* line 42: metrics = get_metrics()
GetMetrics ==
    /\ pc = "get_metrics"
    /\ \E response \in Responses(MetricsBodies(MaxRunMetrics)) :
         LET outcome == get_metrics(response)
         IN  /\ requests' = Append(requests, MetricsRequest)
             /\ metricsResponse' = <<response>>
             /\ metrics' = IF outcome.ok THEN outcome.value ELSE metrics
             /\ Ran("get_metrics", outcome, "set_completer")
    /\ UNCHANGED <<completerSet, completion, query, results, stdout, queryResponse>>

\* lines 45-49: readline is configured and the completer installed
SetCompleter ==
    /\ pc = "set_completer"
    /\ completerSet' = TRUE
    /\ Ran("set_completer", Returned(TRUE), "input")
    /\ UNCHANGED <<metrics, completion, query, results, stdout, requests,
                   metricsResponse, queryResponse>>

\* line 49, while input() waits: readline calls the completer for the text
\* typed so far and an index; readline discards an exception the completer
\* raises, so the prompt goes on either way
Complete ==
    /\ pc = "input"
    /\ completerSet
    /\ \E text \in Texts, state \in 0..MaxState :
         completion' = <<[text |-> text, state |-> state,
                          outcome |-> completer(metrics, text, state)]>>
    /\ UNCHANGED <<pc, metrics, completerSet, query, results, stdout, exitStatus,
                   error, requests, metricsResponse, queryResponse, steps>>

\* line 52: query = input(...)
ReadInput ==
    /\ pc = "input"
    /\ \E outcome \in InputOutcomes :
         /\ query' = IF outcome.ok THEN outcome.value ELSE query
         /\ Ran("input", outcome, "query_prometheus")
    /\ UNCHANGED <<metrics, completerSet, completion, results, stdout, requests,
                   metricsResponse, queryResponse>>

\* line 55: results = query_prometheus(query)
QueryPrometheus ==
    /\ pc = "query_prometheus"
    /\ \E response \in Responses(QueryBodies(RunRecords, MaxRunRecords)) :
         LET outcome == query_prometheus(response)
         IN  /\ requests' = Append(requests, QueryRequest(query))
             /\ queryResponse' = <<response>>
             /\ results' = IF outcome.ok THEN outcome.value ELSE results
             /\ Ran("query_prometheus", outcome, "display_table")
    /\ UNCHANGED <<metrics, completerSet, completion, query, stdout, metricsResponse>>

\* line 58: display_table(results), the script's last statement: the table is
\* printed by the single print of line 39, and the script ends with status 0
DisplayTable ==
    /\ pc = "display_table"
    /\ LET outcome == display_table(results)
       IN  /\ stdout' = IF outcome.ok THEN Append(stdout, outcome.value) ELSE stdout
           /\ Ran("display_table", outcome, "exit")
    /\ UNCHANGED <<metrics, completerSet, completion, query, results, requests,
                   metricsResponse, queryResponse>>

Next ==
    \/ GetMetrics
    \/ SetCompleter
    \/ Complete
    \/ ReadInput
    \/ QueryPrometheus
    \/ DisplayTable

\* a whole run of the script
Spec == Init /\ [][Next]_vars

----------------------------------------------------------------------------
(* The completion provider and the table renderer on their own.            *)

\* a response of status 200 whose body is {"status": "success", "data": d}
Success(d) ==
    [connected |-> TRUE, status |-> 200, json |-> TRUE,
     body |-> [status |-> "success", data |-> d]]

\* the script waits in input() with the completer installed over any
\* metric-name list of at most MaxMetrics names
InitCompleter ==
    /\ pc = "input"
    /\ metrics \in Lists(MetricNames, MaxMetrics)
    /\ completerSet = TRUE
    /\ completion = <<>>
    /\ query = <<>>
    /\ results = <<>>
    /\ stdout = <<>>
    /\ exitStatus = -1
    /\ error = <<>>
    /\ requests = <<MetricsRequest>>
    /\ metricsResponse = <<Success(metrics)>>
    /\ queryResponse = <<>>
    /\ steps = <<[step |-> "get_metrics", ok |-> TRUE],
                 [step |-> "set_completer", ok |-> TRUE]>>

NextCompleter == Complete

\* the completer called on every metric-name list
SpecCompleter == InitCompleter /\ [][NextCompleter]_vars

\* the script is about to call display_table on any result set of at most
\* MaxRecords records
InitTable ==
    /\ pc = "display_table"
    /\ metrics = <<s_up>>
    /\ completerSet = TRUE
    /\ completion = <<>>
    /\ query = s_up
    /\ results \in Lists(Records, MaxRecords)
    /\ stdout = <<>>
    /\ exitStatus = -1
    /\ error = <<>>
    /\ requests = <<MetricsRequest, QueryRequest(s_up)>>
    /\ metricsResponse = <<Success(metrics)>>
    /\ queryResponse = <<Success([resultType |-> "vector", result |-> results])>>
    /\ steps = <<[step |-> "get_metrics", ok |-> TRUE],
                 [step |-> "set_completer", ok |-> TRUE],
                 [step |-> "input", ok |-> TRUE],
                 [step |-> "query_prometheus", ok |-> TRUE]>>

NextTable == DisplayTable

\* display_table called on every result set
SpecTable == InitTable /\ [][NextTable]_vars

----------------------------------------------------------------------------
(* Properties.                                                             *)

\* display_table has been called and has returned or raised
Displayed == Len(steps) = 5
\* the label keys of the result set other than '__name__'
LabelKeys == metric_keys(results) \ {NameKey}
\* record r has a label map, and the map lacks '__name__'
LacksName(r) == "metric" \in DOMAIN r /\ NameKey \notin DOMAIN r.metric
\* record r has a label map and a value pair of two elements
WellShaped(r) ==
    "metric" \in DOMAIN r /\ "value" \in DOMAIN r /\ Len(r.value) = 2

\* C1: display_table on an empty result set raises nothing and prints a table
\* whose headers are exactly the metric-name and the value column, with no
\* rows.
C1_EmptyResultPrintsEmptyTable ==
    (Displayed /\ results = <<>>) =>
        /\ error = <<>>
        /\ stdout = <<[table |-> <<>>, headers |-> <<MetricHeader, ValueHeader>>,
                       cells |-> <<>>]>>

\* C2: a completer call whose index is at least the number of names starting
\* with the prefix returns (it signals exhaustion by its return value) and
\* does not raise.
C2_ExhaustionIsReturned ==
    \A i \in 1..Len(completion) :
        completion[i].state >= Len(matches(metrics, completion[i].text))
            => completion[i].outcome.ok

\* C3: for a non-empty result set whose records all carry '__name__', the
\* header computation (lines 27-29) does not fail, and the headers printed are
\* the metric-name column, then every label key other than '__name__' exactly
\* once in ascending code point order, then the value column: 2 plus the
\* number of distinct non-reserved label keys in all.
C3_Headers ==
    (/\ Displayed
     /\ results # <<>>
     /\ \A i \in 1..Len(results) :
            "metric" \in DOMAIN results[i] /\ NameKey \in DOMAIN results[i].metric)
    => /\ \A e \in 1..Len(error) : error[e].line \notin {27, 28}
       /\ \A t \in 1..Len(stdout) :
            LET h == stdout[t].headers
            IN  /\ Len(h) = 2 + Cardinality(LabelKeys)
                /\ h[1] = MetricHeader
                /\ h[Len(h)] = ValueHeader
                /\ {h[c] : c \in 2..(Len(h) - 1)} = LabelKeys
                /\ \A c, d \in 2..(Len(h) - 1) : c < d => str_lt(h[c], h[d])

\* C3's case: a table printed for two records that together carry label keys
\* on both sides of '__name__' in code point order, one a prefix of another
C3_Witness ==
    /\ stdout # <<>>
    /\ Len(results) = 2
    /\ LabelKeys = {s_Zone, s_job, s_jobs}
    /\ DOMAIN results[1].metric # DOMAIN results[2].metric

\* C4: a printed table shows one row per record, row k for record k, whose
\* first cell is the record's '__name__' value and whose last cell is the
\* second element of the record's value pair, unchanged.
C4_Rows ==
    \A t \in 1..Len(stdout) :
        LET cells == stdout[t].cells
        IN  /\ Len(cells) = Len(results)
            /\ \A k \in 1..Len(cells) :
                 /\ cells[k][1] = results[k].metric[NameKey]
                 /\ cells[k][Len(cells[k])] = results[k].value[2]

MatchPositions(text) == {j \in 1..Len(metrics) : startswith(metrics[j], text)}

\* C6: a completer call whose index i is smaller than the number of names
\* starting with the prefix returns the name at the position that has exactly
\* i matching positions before it; with the empty prefix that is metrics[i]
\* (element i + 1 of the sequence).
C6_IthMatch ==
    \A n \in 1..Len(completion) :
        LET call == completion[n]
            P == MatchPositions(call.text)
        IN  call.state < Cardinality(P) =>
              /\ call.outcome.ok
              /\ \E j \in P :
                   /\ Cardinality({k \in P : k < j}) = call.state
                   /\ call.outcome.value = metrics[j]
              /\ call.text = s_empty => call.outcome.value = metrics[call.state + 1]

\* C6's case: the second match for "up" lies behind a name that does not match
C6_Witness ==
    /\ metrics = <<s_up, s_node_cpu, s_up_time>>
    /\ completion # <<>>
    /\ completion[1].text = s_up
    /\ completion[1].state = 1
    /\ completion[1].outcome = Returned(s_up_time)

\* C7: once the metric-name endpoint has answered with status 500, the script
\* has ended with a nonzero status, without reading a query, issuing the query
\* request or printing a table.
C7_Status500Aborts ==
    (/\ metricsResponse # <<>>
     /\ metricsResponse[1].connected
     /\ metricsResponse[1].status = 500)
    => /\ pc = "exit"
       /\ exitStatus > 0
       /\ Len(steps) = 1
       /\ requests = <<MetricsRequest>>
       /\ stdout = <<>>

\* the metric-name fetch failed: no connection, no JSON, or no 'data'
MetricsFetchFailed ==
    /\ metricsResponse # <<>>
    /\ \/ ~metricsResponse[1].connected
       \/ ~metricsResponse[1].json
       \/ "data" \notin DOMAIN metricsResponse[1].body
\* the query failed: no connection, no JSON, no 'data' or no 'result'
QueryFailed ==
    /\ queryResponse # <<>>
    /\ \/ ~queryResponse[1].connected
       \/ ~queryResponse[1].json
       \/ "data" \notin DOMAIN queryResponse[1].body
       \/ "result" \notin DOMAIN queryResponse[1].body.data
\* display_table met a record without 'metric' or without 'value'
RecordDecodeFailed ==
    /\ Displayed
    /\ \E i \in 1..Len(results) :
         "metric" \notin DOMAIN results[i] \/ "value" \notin DOMAIN results[i]

\* C8: a run in which the metric-name fetch, the query or the decoding of a
\* response failed, or that ended on any uncaught exception, has ended with a
\* nonzero exit status and has printed nothing of the table; and a run that
\* ended with status 0 has printed the table once, with a row for every
\* record of the result set.
C8_NoPartialTable ==
    /\ (MetricsFetchFailed \/ QueryFailed \/ RecordDecodeFailed \/ error # <<>>)
         => (pc = "exit" /\ exitStatus > 0 /\ stdout = <<>>)
    /\ exitStatus = 0
         => /\ pc = "exit"
            /\ error = <<>>
            /\ Len(stdout) = 1
            /\ Len(stdout[1].table) = Len(results)

\* C8's case: the second record of the result set lacks 'value', after a
\* first record whose row could be built; the run ended with nothing printed
C8_Witness ==
    /\ pc = "exit"
    /\ Len(results) = 2
    /\ WellShaped(results[1])
    /\ "value" \notin DOMAIN results[2]
    /\ exitStatus = 1
    /\ stdout = <<>>

\* the driver's statements in the order of the script
Order == <<"get_metrics", "set_completer", "input", "query_prometheus",
           "display_table">>

\* C9: the statements run are a prefix of get_metrics, set_completer, input,
\* query_prometheus, display_table, each at most once, and only the last one
\* run can have failed, after which the script has ended; the requests issued
\* are the metric-name request and then, only after input returned a line, one
\* query request carrying that line; the completer is called and a table is
\* printed only after the statements before have succeeded.
C9_Sequence ==
    /\ Len(steps) <= Len(Order)
    /\ \A i \in 1..Len(steps) :
         /\ steps[i].step = Order[i]
         /\ i < Len(steps) => steps[i].ok
    /\ (steps # <<>> /\ ~steps[Len(steps)].ok) => pc = "exit"
    /\ requests = IF Len(steps) = 0 THEN <<>>
                  ELSE IF Len(steps) < 4 THEN <<MetricsRequest>>
                  ELSE <<MetricsRequest, QueryRequest(query)>>
    /\ completion # <<>> => (Len(steps) >= 2 /\ steps[2].ok)
    /\ stdout # <<>> => (Len(stdout) = 1 /\ Len(steps) = 5 /\ steps[5].ok)

\* C9's case: a whole run, with a completion requested at the prompt, that
\* ended with the table printed
C9_Witness ==
    /\ pc = "exit"
    /\ Len(steps) = 5
    /\ completion # <<>>
    /\ Len(requests) = 2
    /\ Len(stdout) = 1
    /\ stdout[1].table # <<>>

\* C10: display_table on a result set with a record whose label map lacks
\* '__name__' raises and prints nothing; where every record has a label map
\* and a value pair, the exception is the ValueError of headers.remove
\* (line 28) if no record has '__name__', and the KeyError of
\* result['metric']['__name__'] (line 36) if some record has it.
C10_MissingNameRaises ==
    (Displayed /\ \E i \in 1..Len(results) : LacksName(results[i]))
    => /\ stdout = <<>>
       /\ Len(error) = 1
       /\ exitStatus = 1
       /\ (\A i \in 1..Len(results) : WellShaped(results[i]))
            => error[1] =
                 IF \A i \in 1..Len(results) : LacksName(results[i])
                 THEN Raised("ValueError", 28)
                 ELSE Raised("KeyError", 36)

\* C10's case: the first record has '__name__', the second does not
C10_Witness ==
    /\ Displayed
    /\ Len(results) = 2
    /\ WellShaped(results[1]) /\ WellShaped(results[2])
    /\ ~LacksName(results[1])
    /\ LacksName(results[2])
    /\ error = <<Raised("KeyError", 36)>>

=============================================================================
